---------------------------- MODULE Spec2Model ----------------------------
(***************************************************************************)
(* A model of main.py, the Kinopoisk -> Letterboxd converter: the title    *)
(* resolver (TitleFinder.find_id), the catalog loader, the freshness check *)
(* of the cached catalog, the HTML row parser, the enricher, the CSV       *)
(* exporter and the __main__ control flow.                                 *)
(*                                                                         *)
(* Python values are tagged records (None, int, str) so that "2015" and    *)
(* 2015 are different values, as they are in Python.  Text is a sequence   *)
(* of one-character strings, so that int(), strptime() and str() are      *)
(* computed character by character.                                        *)
(***************************************************************************)
EXTENDS Integers, Sequences, FiniteSets, TLC

VARIABLES
    argv,            \* sys.argv
    source,          \* the Kinopoisk file: "missing", "notable" or "ok"
    trs,             \* table.findAll("tr"): the header row, then the data rows
    cache,           \* the cached catalog file: [exists, age, gzip]
    pc,              \* the position of the run in __main__
    rowIdx,          \* the loop index of the running loop
    films_count,     \* load_kinopoisk_data's films_count
    films,           \* the list of Film records (parsed, then enriched)
    fetches,         \* how many times requests.get was called
    fetchResult,     \* how the last requests.get ended ("" before any)
    finder_data,     \* the title -> [(tconst, startYear)] dictionary
    catRead,         \* how many catalog rows the loader has appended
    call,            \* the arguments of the last find_id call
    ret,             \* what the last find_id call returned
    csv,             \* the rows written to letterbox.csv (<<>>: never opened)
    exitStatus       \* the exit status of the process (None while running)

vars == <<argv, source, trs, cache, pc, rowIdx, films_count, films, fetches,
          fetchResult, finder_data, catRead, call, ret, csv, exitStatus>>

-----------------------------------------------------------------------------
(* Bounds of the model.                                                    *)

MaxRows == 2         \* data rows in the Kinopoisk table
MaxCatalog == 2      \* rows read from the catalog file
MaxEntries == 2      \* entries per title of a directly constructed TitleFinder
MaxAge == 5          \* largest age of the cache file, in units of 12 hours

-----------------------------------------------------------------------------
(* Python values.                                                          *)

None == [t |-> "none"]
PyInt(n) == [t |-> "int", n |-> n]
PyStr(s) == [t |-> "str", s |-> s]

Raised(e) == [raised |-> e]
Returned(v) == [raised |-> "", value |-> v]

DigitChars == <<"0", "1", "2", "3", "4", "5", "6", "7", "8", "9">>
IsDigit(c) == \E i \in 1..10 : DigitChars[i] = c
DigitVal(c) == (CHOOSE i \in 1..10 : DigitChars[i] = c) - 1

RECURSIVE DigitsValue(_)
DigitsValue(s) ==
    IF s = <<>> THEN 0
    ELSE 10 * DigitsValue(SubSeq(s, 1, Len(s) - 1)) + DigitVal(s[Len(s)])

RECURSIVE Strip(_)
Strip(s) ==
    IF s # <<>> /\ Head(s) = " " THEN Strip(Tail(s))
    ELSE IF s # <<>> /\ s[Len(s)] = " " THEN Strip(SubSeq(s, 1, Len(s) - 1))
    ELSE s

AllDigits(s) == s # <<>> /\ \A i \in 1..Len(s) : IsDigit(s[i])

\* int(text): surrounding whitespace is stripped, one sign is allowed, the
\* rest must be decimal digits; anything else raises ValueError.
int(text) ==
    LET s == Strip(text)
        signed == s # <<>> /\ Head(s) \in {"+", "-"}
        body == IF signed THEN Tail(s) ELSE s
    IN  IF ~AllDigits(body) THEN Raised("ValueError")
        ELSE IF signed /\ Head(s) = "-" THEN Returned(0 - DigitsValue(body))
        ELSE Returned(DigitsValue(body))

RECURSIVE NatStr(_)
NatStr(n) ==
    IF n < 10 THEN <<DigitChars[n + 1]>>
    ELSE NatStr(n \div 10) \o <<DigitChars[(n % 10) + 1]>>

\* str(n) of an int.
str(n) == IF n < 0 THEN <<"-">> \o NatStr(0 - n) ELSE NatStr(n)

RECURSIVE ZeroPad(_, _)
ZeroPad(s, width) == IF Len(s) >= width THEN s ELSE ZeroPad(<<"0">> \o s, width)

\* Python truthiness of the values the program tests.
Truthy(v) ==
    CASE v.t = "none" -> FALSE
      [] v.t = "int" -> v.n # 0
      [] v.t = "str" -> v.s # <<>>

-----------------------------------------------------------------------------
(* TitleFinder.find_id.  data is the dictionary: a function whose domain   *)
(* is the set of title keys; an entry f is <<tconst, startYear>>, so that  *)
(* Python's f[0] is f[1] here and Python's f[1] is f[2].                   *)

\* self._dict.get(title): a read that never inserts a key.
HasTitle(data, title) == title \in DOMAIN data
DictGet(data, title) == IF HasTitle(data, title) THEN data[title] ELSE <<>>

\* [f for f in films_with_title if f[1] == year]: Python's ==, under which
\* a str never equals an int.
FilmsWithCorrectYear(films_with_title, year) ==
    SelectSeq(films_with_title, LAMBDA f : f[2] = year)

FindId_ReturnsYearField(data, title, year) ==
    LET films_with_title == DictGet(data, title)
    IN  IF films_with_title = <<>> THEN Returned(None)
        ELSE IF Len(films_with_title) = 1
             THEN Returned(films_with_title[1][2])
        ELSE Returned(None)

FindId_ChecksYearOfUnique(data, title, year) ==
    LET films_with_title == DictGet(data, title)
        films_with_correct_year == FilmsWithCorrectYear(films_with_title, year)
    IN  IF films_with_title = <<>> THEN Returned(None)
        ELSE IF ~Truthy(year) THEN Returned(None)
        ELSE IF Len(films_with_correct_year) = 1
             THEN Returned(PyStr(films_with_correct_year[1][1]))
        ELSE Returned(None)

FindId_FirstOfSeveral(data, title, year) ==
    LET films_with_title == DictGet(data, title)
        films_with_correct_year == FilmsWithCorrectYear(films_with_title, year)
    IN  IF films_with_title = <<>> THEN Returned(None)
        ELSE IF Len(films_with_title) = 1
             THEN Returned(PyStr(films_with_title[1][1]))
        ELSE IF ~Truthy(year) THEN Returned(None)
        ELSE IF films_with_correct_year = <<>> THEN Returned(None)
        ELSE Returned(PyStr(films_with_correct_year[1][1]))

FindId_FirstWhenNoYear(data, title, year) ==
    LET films_with_title == DictGet(data, title)
    IN  IF films_with_title = <<>> THEN Returned(None)
        ELSE IF Len(films_with_title) = 1 \/ ~Truthy(year)
             THEN Returned(PyStr(films_with_title[1][1]))
        ELSE Returned(None)

\* find_id(title, year): lines 25-49, branch by branch.  The second test of
\* len(films_with_title) == 1 (line 39) is kept as written; its body would
\* raise IndexError on an empty list.
find_id(data, title, year) ==
    LET films_with_title == DictGet(data, title)
        films_with_correct_year == FilmsWithCorrectYear(films_with_title, year)
    IN  IF films_with_title = <<>> THEN Returned(None)
        ELSE IF Len(films_with_title) = 1
             THEN Returned(PyStr(films_with_title[1][1]))
        ELSE IF ~Truthy(year) THEN Returned(None)
        ELSE IF Len(films_with_title) = 1
             THEN IF films_with_correct_year = <<>>
                  THEN Raised("IndexError")
                  ELSE Returned(PyStr(films_with_correct_year[1][1]))
        ELSE IF films_with_correct_year = <<>> THEN Returned(None)
        ELSE Returned(None)

-----------------------------------------------------------------------------
(* datetime.strptime(text, "%H:%M:%S %d.%m.%Y") and strftime("%Y-%m-%d").  *)

\* How many of the characters of s from position p on are digits, up to max.
RECURSIVE DigitRun(_, _, _)
DigitRun(s, p, max) ==
    IF max = 0 \/ p > Len(s) \/ ~IsDigit(s[p]) THEN 0
    ELSE 1 + DigitRun(s, p + 1, max - 1)

RECURSIVE SpaceRun(_, _)
SpaceRun(s, p) == IF p > Len(s) \/ s[p] # " " THEN 0 ELSE 1 + SpaceRun(s, p + 1)

IsLeap(y) == (y % 4 = 0 /\ y % 100 # 0) \/ y % 400 = 0

DaysInMonth(y, m) ==
    IF m = 2 THEN (IF IsLeap(y) THEN 29 ELSE 28)
    ELSE IF m \in {4, 6, 9, 11} THEN 30 ELSE 31

\* A numeric field of one or two digits at p followed by the literal sep:
\* <<ok, value, next position>>.
Field(s, p, sep) ==
    LET n == DigitRun(s, p, 2)
        q == p + n
    IN  IF n = 0 \/ q > Len(s) \/ s[q] # sep THEN <<FALSE, 0, 0>>
        ELSE <<TRUE, DigitsValue(SubSeq(s, p, q - 1)), q + 1>>

\* The parsed date [Y, m, d], or ValueError when the text does not match the
\* format or names no valid time of a valid day.
strptime(text) ==
    LET H == Field(text, 1, ":")
        M == Field(text, H[3], ":")
        S == Field(text, M[3], " ")
        p == S[3] + SpaceRun(text, S[3])
        d == Field(text, p, ".")
        m == Field(text, d[3], ".")
        ny == DigitRun(text, m[3], 4)
        Y == DigitsValue(SubSeq(text, m[3], m[3] + 3))
    IN  IF ~H[1] \/ ~M[1] \/ ~S[1] \/ ~d[1] \/ ~m[1] THEN Raised("ValueError")
        ELSE IF ny # 4 \/ m[3] + 3 # Len(text) THEN Raised("ValueError")
        ELSE IF H[2] > 23 \/ M[2] > 59 \/ S[2] > 59 THEN Raised("ValueError")
        ELSE IF Y < 1 \/ m[2] < 1 \/ m[2] > 12 THEN Raised("ValueError")
        ELSE IF d[2] < 1 \/ d[2] > DaysInMonth(Y, m[2]) THEN Raised("ValueError")
        ELSE Returned([Y |-> Y, m |-> m[2], d |-> d[2]])

strftime(date) ==
    ZeroPad(str(date.Y), 4) \o <<"-">> \o ZeroPad(str(date.m), 2)
        \o <<"-">> \o ZeroPad(str(date.d), 2)

-----------------------------------------------------------------------------
(* parse_kinopoisk_row.  tds is the list of the row's cell texts; Python's *)
(* tds[i] is tds[i + 1] here and raises IndexError past the end.           *)

Film(title, year, rating, date) ==
    [title |-> title, year |-> year, rating |-> rating, date |-> date,
     imdb_id |-> None]

\* int(tds[i].getText()) under "except ValueError/TypeError": the number,
\* or None.
IntOrNone(text) ==
    LET r == int(text) IN IF r.raised = "" THEN PyInt(r.value) ELSE None

\* The try block's body (lines 108-133): the Film, or the exception that
\* leaves the block.
ParseRowBody(tds) ==
    IF Len(tds) < 2 THEN Raised("IndexError")
    ELSE IF tds[2] = <<>> THEN Raised("ValueError")
    ELSE IF Len(tds) < 3 THEN Raised("IndexError")
    ELSE IF Len(tds) < 8 THEN Raised("IndexError")
    ELSE LET date == strptime(tds[Len(tds)])
         IN  IF date.raised # "" THEN Raised(date.raised)
             ELSE Returned(Film(tds[2], IntOrNone(tds[3]), IntOrNone(tds[8]),
                                strftime(date.value)))

ParseRow_YearRequired(row) ==
    LET r == ParseRowBody(row)
    IN  IF r.raised # "" THEN None
        ELSE IF r.value.year = None THEN None ELSE r.value

\* parse_kinopoisk_row: both handlers (lines 135-142) return None.
parse_kinopoisk_row(row) ==
    LET r == ParseRowBody(row)
    IN  IF r.raised # "" THEN None ELSE r.value

-----------------------------------------------------------------------------
(* The inputs of a run.                                                    *)

TitleA == <<"A">>
TitleB == <<"B">>
TitleC == <<"C">>
Y2001 == <<"2", "0", "0", "1">>
Y2015 == <<"2", "0", "1", "5">>

\* "12:00:00 01.02.2015"
GoodStamp ==
    <<"1", "2", ":", "0", "0", ":", "0", "0", " ",
      "0", "1", ".", "0", "2", ".", "2", "0", "1", "5">>
\* "9:05:00 31.02.2015": the format matches, the day does not exist
BadStamp ==
    <<"9", ":", "0", "5", ":", "0", "0", " ",
      "3", "1", ".", "0", "2", ".", "2", "0", "1", "5">>

\* A row of the export: nine cells, the title in cell 1, the year in cell 2,
\* the rating in cell 7 and the timestamp in the last cell (Python indices).
Row(title, year, rating, stamp) ==
    <<<<"1">>, title, year, <<>>, <<>>, <<>>, <<>>, rating, stamp>>

HeaderRow == <<>>    \* the header's cells are th, so findAll("td") is empty

RowPool ==
    { Row(TitleA, Y2015, <<"8">>, GoodStamp),
      Row(TitleB, <<"-">>, <<>>, GoodStamp),
      Row(<<>>, Y2015, <<"8">>, GoodStamp),
      Row(TitleA, Y2001, <<"7">>, BadStamp),
      <<<<"1">>, TitleA, GoodStamp>> }

RECURSIVE SeqsUpTo(_, _)
SeqsUpTo(S, n) ==
    IF n = 0 THEN {<<>>}
    ELSE LET shorter == SeqsUpTo(S, n - 1)
         IN  shorter \cup {Append(q, x) : q \in shorter, x \in S}

Tables == {<<>>} \cup {<<HeaderRow>> \o rows : rows \in SeqsUpTo(RowPool, MaxRows)}

\* The rows of title.basics.tsv as csv.DictReader yields them: every value
\* is a str.
CatalogRowPool ==
    { [tconst |-> <<"t", "t", "1">>, originalTitle |-> TitleA, startYear |-> Y2001],
      [tconst |-> <<"t", "t", "2">>, originalTitle |-> TitleA, startYear |-> Y2015],
      [tconst |-> <<"t", "t", "3">>, originalTitle |-> TitleA, startYear |-> Y2015],
      [tconst |-> <<"t", "t", "4">>, originalTitle |-> TitleB, startYear |-> Y2001] }

Argvs == { <<"main.py">>, <<"main.py", <<>>>>, <<"main.py", <<"k">>>> }

Caches ==
    {[exists |-> FALSE, age |-> 0, gzip |-> FALSE]}
        \cup [exists : {TRUE}, age : 0..MaxAge, gzip : BOOLEAN]

-----------------------------------------------------------------------------
(* The dictionary built by build_title_finder: a defaultdict(list).        *)

EmptyDict == [k \in {} |-> <<>>]

\* finder_data[key].append(entry): a missing key is created by the access.
DictAppend(data, key, entry) ==
    IF key \in DOMAIN data THEN [data EXCEPT ![key] = Append(@, entry)]
    ELSE [k \in DOMAIN data \cup {key} |->
              IF k = key THEN <<entry>> ELSE data[k]]

\* is_imdb_download_needed.  age is now - mtime in units of 12 hours, and
\* timedelta.days is the number of whole days in it.
TimedeltaDays(age) == age \div 2

is_imdb_download_needed(c) ==
    IF ~c.exists THEN TRUE
    ELSE IF TimedeltaDays(c.age) <= 1 THEN FALSE
    ELSE TRUE

add_imdb_id_ClearsYear(imdb, film) ==
    LET imdb_id == find_id(imdb, film.title, film.year).value
    IN  IF Truthy(imdb_id) THEN [film EXCEPT !.imdb_id = imdb_id]
        ELSE [film EXCEPT !.year = None]

\* add_imdb_id, for a find_id that returned.
add_imdb_id(imdb, film) ==
    LET imdb_id == find_id(imdb, film.title, film.year).value
    IN  IF Truthy(imdb_id) THEN [film EXCEPT !.imdb_id = imdb_id] ELSE film

\* csv.writer's text of a field: "" for None, str() of a number.
CsvField(v) ==
    CASE v.t = "none" -> <<>>
      [] v.t = "int" -> str(v.n)
      [] v.t = "str" -> v.s

CsvHeader == <<"imdbID", "Title", "Year", "WatchedDate", "Rating10">>

CsvRow(film) ==
    <<CsvField(film.imdb_id), film.title, CsvField(film.year), film.date,
      CsvField(film.rating)>>

-----------------------------------------------------------------------------
(* A run of __main__.                                                      *)

NoCall == [made |-> FALSE]

Init ==
    /\ argv \in Argvs
    /\ source \in {"missing", "notable", "ok"}
    /\ trs \in (IF source = "ok" /\ Len(argv) = 2 /\ argv[2] # <<>>
                THEN Tables ELSE {<<>>})
    /\ cache \in (IF source = "ok" /\ Len(argv) = 2 /\ argv[2] # <<>>
                  THEN Caches ELSE {[exists |-> FALSE, age |-> 0, gzip |-> FALSE]})
    /\ pc = "start"
    /\ rowIdx = 0
    /\ films_count = 0
    /\ films = <<>>
    /\ fetches = 0
    /\ fetchResult = ""
    /\ finder_data = EmptyDict
    /\ catRead = 0
    /\ call = NoCall
    /\ ret = Returned(None)
    /\ csv = <<>>
    /\ exitStatus = None

\* An uncaught exception, or sys.exit(1): the process ends with status 1.
Abort ==
    /\ pc' = "exit"
    /\ exitStatus' = PyInt(1)

\* Lines 183-187.  sys.argv[1] raises IndexError when no argument is given.
Start ==
    /\ pc = "start"
    /\ \/ /\ Len(argv) < 2
          /\ Abort
       \/ /\ Len(argv) >= 2
          /\ argv[2] = <<>>
          /\ Abort
       \/ /\ Len(argv) >= 2
          /\ argv[2] # <<>>
          /\ pc' = "load"
          /\ UNCHANGED exitStatus
    /\ UNCHANGED <<argv, source, trs, cache, rowIdx, films_count, films, fetches,
                   fetchResult, finder_data, catRead, call, ret, csv>>

\* load_kinopoisk_data, lines 146-153: open() raises on a missing file and
\* soup.find("table") is None on a page without a table.
LoadOpen ==
    /\ pc = "load"
    /\ \/ /\ source = "missing"
          /\ Abort
          /\ UNCHANGED <<films_count, rowIdx>>
       \/ /\ source = "notable"
          /\ Abort
          /\ UNCHANGED <<films_count, rowIdx>>
       \/ /\ source = "ok"
          /\ films_count' = Len(trs) - 1
          /\ rowIdx' = 2
          /\ pc' = "parse"
          /\ UNCHANGED exitStatus
    /\ UNCHANGED <<argv, source, trs, cache, films, fetches, fetchResult,
                   finder_data, catRead, call, ret, csv>>

\* Lines 155-156: one row of table.findAll("tr")[1:], kept when it parsed.
ParseNext ==
    /\ pc = "parse"
    /\ rowIdx <= Len(trs)
    /\ LET f == parse_kinopoisk_row(trs[rowIdx])
       IN  films' = IF f # None THEN Append(films, f) ELSE films
    /\ rowIdx' = rowIdx + 1
    /\ UNCHANGED <<argv, source, trs, cache, pc, films_count, fetches,
                   fetchResult, finder_data, catRead, call, ret, csv, exitStatus>>

\* Lines 157-160.
ParseDone ==
    /\ pc = "parse"
    /\ rowIdx > Len(trs)
    /\ pc' = "download"
    /\ UNCHANGED <<argv, source, trs, cache, rowIdx, films_count, films, fetches,
                   fetchResult, finder_data, catRead, call, ret, csv, exitStatus>>

Download_SwallowsFailure ==
    /\ pc = "download"
    /\ \/ /\ ~is_imdb_download_needed(cache)
          /\ pc' = "build"
          /\ UNCHANGED <<cache, fetches, fetchResult>>
       \/ /\ is_imdb_download_needed(cache)
          /\ fetches' = fetches + 1
          /\ fetchResult' = "RequestException"
          /\ cache' = [exists |-> TRUE, age |-> 0, gzip |-> TRUE]
          /\ pc' = "build"
    /\ UNCHANGED <<argv, source, trs, rowIdx, films_count, films, finder_data,
                   catRead, call, ret, csv, exitStatus>>

\* download_imdb_titles_file.  requests.get raises RequestException, or it
\* returns and the body is written to the cache file: the catalog, or the
\* body of an HTTP error response, which is no gzip file.
Download ==
    /\ pc = "download"
    /\ \/ /\ ~is_imdb_download_needed(cache)
          /\ pc' = "build"
          /\ UNCHANGED <<cache, fetches, fetchResult, exitStatus>>
       \/ /\ is_imdb_download_needed(cache)
          /\ fetches' = fetches + 1
          /\ \/ /\ fetchResult' = "RequestException"
                /\ Abort
                /\ UNCHANGED cache
             \/ /\ fetchResult' = "ok"
                /\ cache' = [exists |-> TRUE, age |-> 0, gzip |-> TRUE]
                /\ pc' = "build"
                /\ UNCHANGED exitStatus
             \/ /\ fetchResult' = "http_error"
                /\ cache' = [exists |-> TRUE, age |-> 0, gzip |-> FALSE]
                /\ pc' = "build"
                /\ UNCHANGED exitStatus
    /\ UNCHANGED <<argv, source, trs, rowIdx, films_count, films, finder_data,
                   catRead, call, ret, csv>>

\* build_title_finder, lines 62-67: reading a file that is no gzip file
\* raises on the first row.
BuildOpen ==
    /\ pc = "build"
    /\ \/ /\ ~cache.gzip
          /\ Abort
       \/ /\ cache.gzip
          /\ pc' = "buildrows"
          /\ UNCHANGED exitStatus
    /\ UNCHANGED <<argv, source, trs, cache, rowIdx, films_count, films, fetches,
                   fetchResult, finder_data, catRead, call, ret, csv>>

\* Lines 68-69: the next row of the catalog file.
BuildRow ==
    /\ pc = "buildrows"
    /\ catRead < MaxCatalog
    /\ \E row \in CatalogRowPool :
          finder_data' = DictAppend(finder_data, row.originalTitle,
                                    <<row.tconst, PyStr(row.startYear)>>)
    /\ catRead' = catRead + 1
    /\ UNCHANGED <<argv, source, trs, cache, pc, rowIdx, films_count, films,
                   fetches, fetchResult, call, ret, csv, exitStatus>>

\* Lines 71-75: the end of the catalog file.
BuildDone ==
    /\ pc = "buildrows"
    /\ pc' = "enrich"
    /\ rowIdx' = 1
    /\ UNCHANGED <<argv, source, trs, cache, films_count, films, fetches,
                   fetchResult, finder_data, catRead, call, ret, csv, exitStatus>>

\* Line 193: add_imdb_id on the next film.  An exception of find_id would
\* leave the comprehension and end the run.
Enrich ==
    /\ pc = "enrich"
    /\ rowIdx <= Len(films)
    /\ LET film == films[rowIdx]
           r == find_id(finder_data, film.title, film.year)
       IN  /\ call' = [made |-> TRUE, title |-> film.title, year |-> film.year]
           /\ ret' = r
           /\ IF r.raised # ""
              THEN /\ Abort
                   /\ UNCHANGED <<films, rowIdx>>
              ELSE /\ films' = [films EXCEPT ![rowIdx] = add_imdb_id(finder_data, film)]
                   /\ rowIdx' = rowIdx + 1
                   /\ UNCHANGED <<pc, exitStatus>>
    /\ UNCHANGED <<argv, source, trs, cache, films_count, fetches, fetchResult,
                   finder_data, catRead, csv>>

\* export_to_csv, lines 171-174: the file is opened and the header written.
ExportOpen ==
    /\ pc = "enrich"
    /\ rowIdx > Len(films)
    /\ csv' = <<CsvHeader>>
    /\ rowIdx' = 1
    /\ pc' = "export"
    /\ UNCHANGED <<argv, source, trs, cache, films_count, films, fetches,
                   fetchResult, finder_data, catRead, call, ret, exitStatus>>

\* Lines 175-178.
ExportRow ==
    /\ pc = "export"
    /\ rowIdx <= Len(films)
    /\ csv' = Append(csv, CsvRow(films[rowIdx]))
    /\ rowIdx' = rowIdx + 1
    /\ UNCHANGED <<argv, source, trs, cache, pc, films_count, films, fetches,
                   fetchResult, finder_data, catRead, call, ret, exitStatus>>

\* Line 179 and the end of the script.
ExportDone ==
    /\ pc = "export"
    /\ rowIdx > Len(films)
    /\ pc' = "exit"
    /\ exitStatus' = PyInt(0)
    /\ UNCHANGED <<argv, source, trs, cache, rowIdx, films_count, films, fetches,
                   fetchResult, finder_data, catRead, call, ret, csv>>

Next ==
    \/ Start
    \/ LoadOpen
    \/ ParseNext
    \/ ParseDone
    \/ Download
    \/ BuildOpen
    \/ BuildRow
    \/ BuildDone
    \/ Enrich
    \/ ExportOpen
    \/ ExportRow
    \/ ExportDone

Spec == Init /\ [][Next]_vars

-----------------------------------------------------------------------------
(* find_id on its own: a TitleFinder constructed directly from any         *)
(* dictionary, whose years may be str (as loaded from the catalog file) or *)
(* int, queried with any title and any Optional[int] year.                 *)

EntryPool ==
    { << <<"t", "t", "1">>, PyStr(Y2001) >>,
      << <<"t", "t", "2">>, PyStr(Y2015) >>,
      << <<"t", "t", "3">>, PyInt(2015) >>,
      << <<"t", "t", "4">>, PyInt(2015) >> }

Catalogs ==
    UNION { [K -> SeqsUpTo(EntryPool, MaxEntries)] : K \in SUBSET {TitleA, TitleB} }

QueryTitles == {TitleA, TitleB, TitleC}
QueryYears == {None, PyInt(0), PyInt(1999), PyInt(2001), PyInt(2015)}

InitFind ==
    /\ argv = <<"main.py">>
    /\ source = "ok"
    /\ trs = <<>>
    /\ cache = [exists |-> FALSE, age |-> 0, gzip |-> FALSE]
    /\ pc = "find_id"
    /\ rowIdx = 0
    /\ films_count = 0
    /\ films = <<>>
    /\ fetches = 0
    /\ fetchResult = ""
    /\ finder_data \in Catalogs
    /\ catRead = 0
    /\ call = NoCall
    /\ ret = Returned(None)
    /\ csv = <<>>
    /\ exitStatus = None

FindCall ==
    /\ pc = "find_id"
    /\ \E title \in QueryTitles, year \in QueryYears :
          /\ call' = [made |-> TRUE, title |-> title, year |-> year]
          /\ ret' = find_id(finder_data, title, year)
    /\ UNCHANGED <<argv, source, trs, cache, pc, rowIdx, films_count, films,
                   fetches, fetchResult, finder_data, catRead, csv, exitStatus>>

NextFind == FindCall

SpecFind == InitFind /\ [][NextFind]_vars

-----------------------------------------------------------------------------
(* The properties.                                                         *)

\* The catalog entries under the title of the last find_id call.
CallEntries == DictGet(finder_data, call.title)

\* An entry's year is the given year: the same number, whether the catalog
\* holds it as an int or as its decimal text.
YearMatches(entryYear, year) ==
    /\ year.t = "int"
    /\ \/ entryYear.t = "int" /\ entryYear.n = year.n
       \/ entryYear.t = "str" /\ int(entryYear.s) = Returned(year.n)

\* The entries that match both the title and the year of the last call.
Matching == SelectSeq(CallEntries, LAMBDA f : YearMatches(f[2], call.year))

\* C1: when the title maps to two or more entries of which exactly one has
\* the given year, find_id returns that entry's identifier.
C1_OneYearMatchIsReturned ==
    (call.made /\ Len(CallEntries) >= 2 /\ Len(Matching) = 1)
        => ret = Returned(PyStr(Matching[1][1]))

\* C2: when the title maps to exactly one entry, find_id returns that
\* entry's identifier whatever the year argument is.
C2_UniqueTitleIsReturned ==
    (call.made /\ Len(CallEntries) = 1)
        => ret = Returned(PyStr(CallEntries[1][1]))

C2_Witness ==
    /\ call.made
    /\ Len(CallEntries) = 1
    /\ call.year = PyInt(1999)
    /\ Len(Matching) = 0
    /\ ret = Returned(PyStr(CallEntries[1][1]))

\* C3 as stated: with a year given, find_id returns absent whenever the
\* number of entries matching both title and year is zero or more than one.
C3_AbsentUnlessOneMatch ==
    (call.made /\ call.year # None /\ Len(Matching) # 1)
        => ret = Returned(None)

\* C3 amended: with a year given, find_id returns absent whenever the number
\* of entries matching both title and year is zero or more than one, unless
\* the title maps to exactly one entry.
C3_AbsentUnlessOneMatchOrUniqueTitle ==
    (call.made /\ call.year # None /\ Len(Matching) # 1 /\ Len(CallEntries) # 1)
        => ret = Returned(None)

C3_Witness ==
    /\ call.made
    /\ call.year = PyInt(2015)
    /\ Len(CallEntries) >= 2
    /\ Len(Matching) >= 2
    /\ ret = Returned(None)

\* C4: with no year given, find_id returns absent, and raises nothing, for a
\* title that is not in the catalog and for a title with two or more
\* entries.
C4_NoYearAbsent ==
    (call.made /\ call.year = None
        /\ (~HasTitle(finder_data, call.title) \/ Len(CallEntries) >= 2))
        => ret = Returned(None)

C4_Witness ==
    /\ call.made
    /\ call.year = None
    /\ Len(CallEntries) >= 2
    /\ ret = Returned(None)

\* C5: every title key of the catalog index has at least one entry, and
\* every imdb_id that was set is the identifier of an entry under the
\* film's title.
C5_IndexAndIdsConsistent ==
    /\ \A k \in DOMAIN finder_data : Len(finder_data[k]) >= 1
    /\ \A i \in 1..Len(films) :
          films[i].imdb_id # None =>
              /\ HasTitle(finder_data, films[i].title)
              /\ \E j \in 1..Len(finder_data[films[i].title]) :
                    films[i].imdb_id = PyStr(finder_data[films[i].title][j][1])

C5_Witness ==
    /\ DOMAIN finder_data = {TitleA, TitleB}
    /\ \E i \in 1..Len(films) : films[i].imdb_id # None

\* C6: the catalog is fetched exactly when the cache file does not exist or
\* is more than one day (two units of 12 hours) old.
C6_FetchIffOlderThanOneDay ==
    [][pc = "download" =>
          ((fetches' = fetches + 1) <=> (~cache.exists \/ cache.age > 2))]_vars

\* The data rows of the table, and those with a title and a timestamp that
\* parses.
DataRows == SubSeq(trs, 2, Len(trs))
HasTitleAndStamp(row) ==
    /\ Len(row) >= 2
    /\ row[2] # <<>>
    /\ strptime(row[Len(row)]).raised = ""
\* A row that also has the columns up to the rating column.
WellFormed(row) == Len(row) >= 8 /\ HasTitleAndStamp(row)

Titles(fs) == [i \in 1..Len(fs) |-> fs[i].title]
RowTitles(rows) == [i \in 1..Len(rows) |-> rows[i][2]]

\* How far the parse loop has come.
ParsedRows ==
    IF pc \in {"start", "load"} THEN <<>>
    ELSE IF pc = "parse" THEN SubSeq(trs, 2, rowIdx - 1)
    ELSE DataRows

\* C7: every row with a non-empty title and a parsable timestamp yields a
\* record, the year and the rating being unknown when missing or not
\* numeric, and find_id is called without a year for an unknown year.
C7_TitleAndStampSuffice ==
    /\ Titles(films) = RowTitles(SelectSeq(ParsedRows, HasTitleAndStamp))
    /\ (call.made /\ pc # "find_id") =>
          \E i \in 1..Len(films) :
              call = [made |-> TRUE, title |-> films[i].title, year |-> films[i].year]

\* C8: a row without a title or with an unparsable timestamp is left out,
\* the parse goes on, the well-formed rows are returned in their order, and
\* the number parsed is the number present minus the number rejected.
C8_MalformedRowsAreIsolated ==
    LET rejected == SelectSeq(ParsedRows, LAMBDA r : ~WellFormed(r))
    IN  /\ Titles(films) = RowTitles(SelectSeq(ParsedRows, WellFormed))
        /\ Len(films) = Len(ParsedRows) - Len(rejected)
        /\ (pc = "parse" => exitStatus = None)
        /\ (pc \notin {"start", "load"} /\ Len(trs) >= 1) =>
              films_count = Len(DataRows)

C8_Witness ==
    /\ pc = "download"
    /\ Len(DataRows) = 2
    /\ ~HasTitleAndStamp(DataRows[1])
    /\ WellFormed(DataRows[2])
    /\ Len(films) = 1
    /\ films_count = 2

\* The rows that parsed, in their order.
AcceptedRows == SelectSeq(DataRows, LAMBDA r : parse_kinopoisk_row(r) # None)

\* C9: the CSV holds the header and then one row per film in the order of
\* the list; a film without a match has an empty identifier field, and the
\* other four fields are what the parser produced.
C9_CsvRowsFollowRecords ==
    (csv # <<>>) =>
        /\ csv[1] = CsvHeader
        /\ Len(csv) <= Len(films) + 1
        /\ (pc = "exit" => Len(csv) = Len(films) + 1)
        /\ Len(films) = Len(AcceptedRows)
        /\ \A k \in 1..(Len(csv) - 1) :
              LET f == parse_kinopoisk_row(AcceptedRows[k])
                  id == IF films[k].imdb_id = None THEN <<>>
                        ELSE films[k].imdb_id.s
              IN  csv[k + 1] =
                      <<id, f.title,
                        IF f.year = None THEN <<>> ELSE str(f.year.n),
                        f.date,
                        IF f.rating = None THEN <<>> ELSE str(f.rating.n)>>

C9_Witness ==
    /\ pc = "exit"
    /\ Len(csv) = 3
    /\ csv[2] = << <<>>, TitleA, Y2015, <<"2", "0", "1", "5", "-", "0", "2", "-", "0", "1">>, <<"8">> >>
    /\ csv[3][2] = TitleB
    /\ csv[3][1] # <<>>

\* C10: a run without the argument, without a readable source table or with
\* a failed fetch ends with a non-zero exit status, fetches at most once,
\* and neither enriches a film nor writes the CSV.
FatalCondition ==
    \/ pc # "start" /\ (Len(argv) < 2 \/ argv[2] = <<>>)
    \/ pc \notin {"start", "load"} /\ source # "ok"
    \/ fetchResult = "RequestException"
    \/ fetchResult = "http_error" /\ pc # "build"

C10_FatalConditionsAbort ==
    /\ fetches <= 1
    /\ FatalCondition =>
          /\ pc = "exit"
          /\ exitStatus = PyInt(1)
          /\ csv = <<>>
          /\ ~call.made
          /\ \A i \in 1..Len(films) : films[i].imdb_id = None

C10_Witness ==
    /\ fetchResult = "RequestException"
    /\ fetches = 1
    /\ pc = "exit"
    /\ exitStatus = PyInt(1)
    /\ Len(films) >= 1

=============================================================================
